---- MODULE Spec2Model ----
(***************************************************************************)
(* Model of the expense-receipt bot (src/main.py): the two webhook         *)
(* handlers, the two background processors they schedule, the ledger       *)
(* (spreadsheet) they append to, and the amount/date extractor.            *)
(*                                                                         *)
(* Python str values are modelled as sequences of one-character strings,   *)
(* so that searching, replacing, stripping and slicing are computed.       *)
(* A Python float is modelled by the exact decimal it was parsed from:     *)
(* [int |-> i, frac |-> f], the digits before and after the point, without *)
(* leading zeros in i and without trailing zeros in f.  The amounts here   *)
(* have at most 15 significant digits, which a double tells apart.         *)
(*                                                                         *)
(* The handlers' background_tasks parameter is FastAPI's BackgroundTasks   *)
(* (main.py names the type at lines 221 and 254 without importing it): a   *)
(* task added by a handler runs after the handler's response is sent.      *)
(***************************************************************************)
EXTENDS Integers, Sequences, FiniteSets, TLC

(***************************************************************************)
(* Bounds of the model.                                                    *)
(***************************************************************************)
\* number of inbound webhook requests of a behaviour
MaxReq == 2
\* largest number of thousands groups in a generated amount token
MaxGroups == 2

(***************************************************************************)
(* Strings as character sequences.                                         *)
(***************************************************************************)
Digit == {"0", "1", "2", "3", "4", "5", "6", "7", "8", "9"}

Whitespace == {" ", "\n", "\t"}

\* the character at index i, or "" beyond either end (no character matches "")
At(s, i) == IF i \in 1..Len(s) THEN s[i] ELSE ""

\* s[i..j] are all digits (and inside s)
AllDigits(s, i, j) == \A k \in i..j : At(s, k) \in Digit

Max(S) == CHOOSE m \in S : \A k \in S : k <= m

Min(S) == CHOOSE m \in S : \A k \in S : m <= k

\* str.replace(old, new) for a one-character old: every occurrence, left to right
RECURSIVE Replace(_, _, _)
Replace(s, old, new) ==
    IF s = <<>> THEN <<>>
    ELSE (IF Head(s) = old THEN new ELSE <<Head(s)>>) \o Replace(Tail(s), old, new)

\* s.startswith(p)
StartsWith(s, p) == Len(s) >= Len(p) /\ SubSeq(s, 1, Len(p)) = p

\* str.replace(old, "") for a multi-character old (non-overlapping, left to right)
RECURSIVE Remove(_, _)
Remove(s, old) ==
    IF s = <<>> THEN <<>>
    ELSE IF StartsWith(s, old) THEN Remove(SubSeq(s, Len(old) + 1, Len(s)), old)
    ELSE <<Head(s)>> \o Remove(Tail(s), old)

\* str.strip(): leading and trailing whitespace removed
Strip(s) ==
    LET keep == {i \in 1..Len(s) : s[i] \notin Whitespace}
    IN  IF keep = {} THEN <<>> ELSE SubSeq(s, Min(keep), Max(keep))

\* s[:n]
Slice(s, n) == SubSeq(s, 1, IF Len(s) < n THEN Len(s) ELSE n)

(***************************************************************************)
(* float(): the string is digits with at most one '.'; anything else       *)
(* raises ValueError.  The strings parse_expense_data passes hold only     *)
(* digits and '.' and start with a digit.                                  *)
(***************************************************************************)
RECURSIVE StripLeadingZeros(_)
StripLeadingZeros(s) ==
    IF s # <<>> /\ Head(s) = "0" THEN StripLeadingZeros(Tail(s)) ELSE s

RECURSIVE StripTrailingZeros(_)
StripTrailingZeros(s) ==
    IF s # <<>> /\ s[Len(s)] = "0" THEN StripTrailingZeros(SubSeq(s, 1, Len(s) - 1)) ELSE s

\* the number with these digits before and after the point
Number(int, frac) == [int |-> StripLeadingZeros(int), frac |-> StripTrailingZeros(frac)]

ValueError == [raised |-> "ValueError"]

float(s) ==
    LET dots == {i \in 1..Len(s) : s[i] = "."}
        ok   == /\ Cardinality(dots) <= 1
                /\ \A i \in 1..Len(s) : s[i] \in Digit \cup {"."}
                /\ \E i \in 1..Len(s) : s[i] \in Digit
    IN  IF ~ok THEN ValueError
        ELSE IF dots = {} THEN Number(s, <<>>)
        ELSE LET p == CHOOSE i \in dots : TRUE
             IN  Number(SubSeq(s, 1, p - 1), SubSeq(s, p + 1, Len(s)))

(***************************************************************************)
(* The two regular expressions of parse_expense_data, matched as           *)
(* re.search matches them: leftmost start, first alternative first,        *)
(* greedy quantifiers with backtracking.                                   *)
(***************************************************************************)
\* \d{d}(?:G\d{3}){k}D\d{2} matches s from index p (G the group separator, D the decimal one)
NumberMatches(s, p, d, k, gsep, dsep) ==
    /\ AllDigits(s, p, p + d - 1)
    /\ \A i \in 0..(k - 1) :
          /\ At(s, p + d + 4 * i) = gsep
          /\ AllDigits(s, p + d + 4 * i + 1, p + d + 4 * i + 3)
    /\ At(s, p + d + 4 * k) = dsep
    /\ AllDigits(s, p + d + 4 * k + 1, p + d + 4 * k + 2)

\* \d{1,3}(?:G\d{3})*D\d{2} from index p: the last index of the match, 0 when none.
\* Greedy: the longest leading digit run that lets the rest match, then the most groups.
NumberEnd(s, p, gsep, dsep) ==
    LET ks(d) == {k \in 0..(Len(s) \div 4) : NumberMatches(s, p, d, k, gsep, dsep)}
        ds    == {d \in 1..3 : ks(d) # {}}
    IN  IF ds = {} THEN 0
        ELSE LET d == Max(ds) IN p + d + 4 * Max(ks(d)) + 2

\* R\$\s* from index p (re.IGNORECASE): the index after the longest whitespace run, 0 when no match
PrefixEnd(s, p) ==
    IF At(s, p) \in {"R", "r"} /\ At(s, p + 1) = "$"
    THEN Min({q \in (p + 2)..(Len(s) + 1) : At(s, q) \notin Whitespace})
    ELSE 0

\* first alternative, R\$\s*(\d{1,3}(?:\.\d{3})*,\d{2}), from index p: group 1 or <<>>.
\* \s* is greedy and gives back whitespace on failure; no digit is whitespace, so
\* only the longest run can be followed by the digit the group starts with.
Group1At(s, p) ==
    LET q == PrefixEnd(s, p)
        e == IF q = 0 THEN 0 ELSE NumberEnd(s, q, ".", ",")
    IN  IF e = 0 THEN <<>> ELSE SubSeq(s, q, e)

\* second alternative, (\d{1,3}(?:,\d{3})*\.\d{2}), from index p: group 2 or <<>>
Group2At(s, p) ==
    LET e == NumberEnd(s, p, ",", ".")
    IN  IF e = 0 THEN <<>> ELSE SubSeq(s, p, e)

\* valor_match.group(1) or valor_match.group(2) of re.search; <<>> when there is no match
valor_match(text) ==
    LET starts == {p \in 1..Len(text) : Group1At(text, p) # <<>> \/ Group2At(text, p) # <<>>}
    IN  IF starts = {} THEN <<>>
        ELSE LET p == Min(starts)
             IN  IF Group1At(text, p) # <<>> THEN Group1At(text, p) ELSE Group2At(text, p)

IsDateSep(c) == c \in {"-", "/"}

\* \d{2}[-/]\d{2}[-/]\d{4} from index p
Date1At(s, p) ==
    /\ AllDigits(s, p, p + 1) /\ IsDateSep(At(s, p + 2))
    /\ AllDigits(s, p + 3, p + 4) /\ IsDateSep(At(s, p + 5))
    /\ AllDigits(s, p + 6, p + 9)

\* \d{4}[-/]\d{2}[-/]\d{2} from index p
Date2At(s, p) ==
    /\ AllDigits(s, p, p + 3) /\ IsDateSep(At(s, p + 4))
    /\ AllDigits(s, p + 5, p + 6) /\ IsDateSep(At(s, p + 7))
    /\ AllDigits(s, p + 8, p + 9)

\* data_match.group(0) of re.search; <<>> when there is no match (both alternatives are 10 long)
data_match(text) ==
    LET starts == {p \in 1..Len(text) : Date1At(text, p) \/ Date2At(text, p)}
    IN  IF starts = {} THEN <<>> ELSE SubSeq(text, Min(starts), Min(starts) + 9)

(***************************************************************************)
(* parse_expense_data                                                      *)
(***************************************************************************)
NaoEncontrado == <<"N", "ã", "o", " ", "e", "n", "c", "o", "n", "t", "r", "a", "d", "o">>

NaoEncontrada == <<"N", "ã", "o", " ", "e", "n", "c", "o", "n", "t", "r", "a", "d", "a">>

\* valor_str.replace('.', '').replace(',', '.')
NormalizeValor(valor_str) == Replace(Replace(valor_str, ".", <<>>), ",", <<".">>)

\* data["valor"]: a float, or the sentinel str
Valor(text) ==
    LET valor_str == valor_match(text)
        f         == float(NormalizeValor(valor_str))
    IN  IF valor_str = <<>> \/ f = ValueError
        THEN [str |-> NaoEncontrado]
        ELSE [float |-> f]

parse_expense_data(text) ==
    [valor           |-> Valor(text),
     data            |-> IF data_match(text) = <<>> THEN NaoEncontrada ELSE data_match(text),
     estabelecimento |-> NaoEncontrado,
     descricao       |-> Strip(text)]

(***************************************************************************)
(* Inbound requests.                                                       *)
(*                                                                         *)
(* A chat-platform request is its raw body and whether its signature is    *)
(* the one signature_verifier accepts.  The body is bytes that are not     *)
(* UTF-8, text that is not JSON, or a JSON object.  A messaging-gateway    *)
(* request is its form; a form field may be absent.                        *)
(***************************************************************************)
FileId == "F1"

ChannelId == "C1"

UserId == <<"U", "1">>

FileShared == [type |-> "file_shared", file_id |-> FileId, channel_id |-> ChannelId, user_id |-> UserId]

SlackBodies ==
    { [raw |-> "not_utf8"],
      [raw |-> "not_json"],
      [json |-> [challenge |-> "tok"]],
      [json |-> [event |-> FileShared]],
      [json |-> [event |-> [type |-> "file_shared", channel_id |-> ChannelId, user_id |-> UserId]]],
      [json |-> [event |-> [type |-> "message"]]],
      [json |-> [type |-> "event_callback"]] }

FromNumber == <<"w", "h", "a", "t", "s", "a", "p", "p", ":", "+", "1">>

MediaUrl == "https://media/1"

WhatsappForms ==
    { [Body |-> <<"O", "i">>, From |-> FromNumber],
      [Body |-> <<>>, From |-> FromNumber, MediaUrl0 |-> ""],
      [Body |-> <<>>, From |-> FromNumber, MediaUrl0 |-> MediaUrl] }

\* dict.get(key) / form_data.get(key, default)
Get(d, key, default) == IF key \in DOMAIN d THEN d[key] ELSE default

None == [none |-> TRUE]

Reqs == 1..MaxReq

(***************************************************************************)
(* State.                                                                  *)
(***************************************************************************)
VARIABLES
    request,    \* request[r]: the r-th inbound request, NoRequest until it arrives
    response,   \* response[r]: what the handler returned for it, NoResponse until then
    task,       \* task[r]: the background processor run scheduled for it, NoTask when none
    ledger,     \* the spreadsheet: the sequence of appended rows
    exText,     \* the extractor on its own: the text given to parse_expense_data
    exData      \* ... and what it returned, None before the call

vars == <<request, response, task, ledger, exText, exData>>

NoRequest == [channel |-> "none"]

NoResponse == [status |-> 0]

NoErr == [step |-> 0, exc |-> "none"]

\* A run of a background processor: its position (pc), its arguments, its locals
\* (download_url, text, parsed_data, user_name), the exception its try block was
\* left with (err: the step that raised, 1 to 6, and what), and what it has done so
\* far: how the image fetch ended (fetch), the rows it appended (appended), the
\* confirmation it sent (reply), the error reply it made (error_reply).
TaskAt(pc, channel, args) ==
    [pc           |-> pc,
     channel      |-> channel,
     args         |-> args,
     download_url |-> "",
     text         |-> None,
     parsed_data  |-> None,
     user_name    |-> <<>>,
     fetch        |-> "none",
     appended     |-> 0,
     reply        |-> None,
     error_reply  |-> None,
     err          |-> NoErr]

NoTask == TaskAt("none", "none", None)

\* mutant of NewTask: the handler awaits the processor itself instead of adding a task
NewTask_awaited(channel, args) ==
    TaskAt(IF channel = "slack" THEN "files_info" ELSE "download", channel, args)

\* background_tasks.add_task(processor, args): the run waits for the response to go out
NewTask(channel, args) == TaskAt("queued", channel, args)

(***************************************************************************)
(* Webhook handlers.                                                       *)
(***************************************************************************)
HTTP(status, content) == [status |-> status, content |-> content]

InternalServerError == HTTP(500, "Internal Server Error")

\* slack_events: what it returns and the task it adds, <<response, task>>
slack_events(signature_valid, body) ==
    IF "raw" \in DOMAIN body /\ body.raw = "not_utf8"
    THEN <<InternalServerError, NoTask>>             \* req_body.decode("utf-8") raises
    ELSE IF ~signature_valid
    THEN <<HTTP(403, "Invalid Slack request signature"), NoTask>>
    ELSE IF "json" \notin DOMAIN body
    THEN <<InternalServerError, NoTask>>             \* request.json() raises
    ELSE LET request_data == body.json IN
         IF "challenge" \in DOMAIN request_data
         THEN <<[status |-> 200, content |-> "json", challenge |-> request_data.challenge], NoTask>>
         ELSE LET event == Get(request_data, "event", None) IN
              IF event = None
              THEN <<InternalServerError, NoTask>>   \* None.get raises AttributeError
              ELSE IF /\ Get(event, "type", "") = "file_shared"
                      /\ Get(event, "file_id", "") # ""
                   THEN <<HTTP(200, "Processing your request in the background."),
                          NewTask("slack", [file_id    |-> event.file_id,
                                            channel_id |-> Get(event, "channel_id", ""),
                                            user_id    |-> Get(event, "user_id", <<>>)])>>
                   ELSE <<HTTP(200, ""), NoTask>>

\* mutant of whatsapp_webhook: "if media_url is not None" for "if media_url"
whatsapp_webhook_is_not_none(form_data) ==
    IF "MediaUrl0" \in DOMAIN form_data
    THEN <<[status |-> 200, content |-> "twiml", message |-> ""],
           TaskAt("queued", "whatsapp", [from_number |-> Get(form_data, "From", <<>>),
                                         media_url   |-> form_data.MediaUrl0])>>
    ELSE <<[status |-> 200, content |-> "twiml", message |-> "envie a foto do seu comprovante"],
           TaskAt("none", "none", None)>>

\* whatsapp_webhook: what it returns and the task it adds, <<response, task>>
whatsapp_webhook(form_data) ==
    LET from_number == Get(form_data, "From", <<>>)
        media_url   == Get(form_data, "MediaUrl0", "")
    IN  IF media_url # ""
        THEN <<[status |-> 200, content |-> "twiml", message |-> ""],
               NewTask("whatsapp", [from_number |-> from_number, media_url |-> media_url])>>
        ELSE <<[status |-> 200, content |-> "twiml", message |-> "envie a foto do seu comprovante"],
               NoTask>>

\* requests arrive one after the other; r is the next one
IsNext(r) == request[r] = NoRequest /\ \A q \in 1..(r - 1) : request[q] # NoRequest

\* POST /slack/events
SlackEvents(r) ==
    /\ IsNext(r)
    /\ \E signature_valid \in BOOLEAN, body \in SlackBodies :
          LET result == slack_events(signature_valid, body) IN
          /\ request'  = [request EXCEPT ![r] = [channel |-> "slack", signature_valid |-> signature_valid,
                                                 body |-> body]]
          /\ response' = [response EXCEPT ![r] = result[1]]
          /\ task'     = [task EXCEPT ![r] = result[2]]
    /\ UNCHANGED <<ledger, exText, exData>>

\* POST /whatsapp/webhook
WhatsappWebhook(r) ==
    /\ IsNext(r)
    /\ \E form_data \in WhatsappForms :
          LET result == whatsapp_webhook(form_data) IN
          /\ request'  = [request EXCEPT ![r] = [channel |-> "whatsapp", form |-> form_data]]
          /\ response' = [response EXCEPT ![r] = result[1]]
          /\ task'     = [task EXCEPT ![r] = result[2]]
    /\ UNCHANGED <<ledger, exText, exData>>

(***************************************************************************)
(* Background processors.  Each call to an external service either         *)
(* returns or raises; the outcome is an input of the step.  An exception   *)
(* anywhere in the try block leaves it for the except clause, where the    *)
(* locals of the try block are dead.                                       *)
(***************************************************************************)
\* what the OCR service can recognize in an image (besides nothing at all)
OcrText == <<" ", "R", "$", " ", "4", "5", ",", "9", "0", "\n">>

OcrTexts == {OcrText}

RealName == <<"A", "n", "a">>

PrivateUrl(file_id) == "https://files/" \o file_id

DescLimit == 100

\* the locals of the try block, dead once it is left
Forget(t) == [t EXCEPT !.download_url = "", !.text = None, !.parsed_data = None, !.user_name = <<>>]

\* mutant of Raise: the except clause only logs
Raise_logged(t, step, exc) == [Forget(t) EXCEPT !.pc = "done", !.err = [step |-> step, exc |-> exc]]

Raise(t, step, exc) == [Forget(t) EXCEPT !.pc = "except", !.err = [step |-> step, exc |-> exc]]

\* mutant of row_data: the first two columns swapped
row_data_swapped(parsed_data, user_name, url) ==
    <<user_name, parsed_data.data, parsed_data.valor, parsed_data.estabelecimento,
      parsed_data.descricao, "Aguardando", url>>

\* the 7 values of row_data
row_data(parsed_data, user_name, url) ==
    <<parsed_data.data, user_name, parsed_data.valor, parsed_data.estabelecimento,
      parsed_data.descricao, "Aguardando", url>>

\* the confirmation message: date, amount, the first 100 characters of the description
ConfirmationMessage(parsed_data) ==
    [kind |-> "confirmation", data |-> parsed_data.data, valor |-> parsed_data.valor,
     descricao |-> Slice(parsed_data.descricao, DescLimit)]

ErrorMessage(err) == [kind |-> "error", erro |-> err.exc]

\* where replies of a run go: the channel the event came from
ReplyTo(t) ==
    IF t.channel = "slack" THEN [api |-> "slack", to |-> t.args.channel_id]
    ELSE [api |-> "twilio", to |-> t.args.from_number]

Step(r, t) ==
    /\ task' = [task EXCEPT ![r] = t]
    /\ UNCHANGED <<request, response, ledger, exText, exData>>

\* the framework runs the tasks a handler added once the handler's response is out
RunBackgroundTask(r) ==
    /\ task[r].pc = "queued"
    /\ response[r] # NoResponse
    /\ Step(r, [task[r] EXCEPT !.pc = IF task[r].channel = "slack" THEN "files_info" ELSE "download",
                               !.download_url = IF task[r].channel = "slack" THEN "" ELSE task[r].args.media_url])

\* slack_client.files_info(file=file_id)["file"]["url_private"]
FilesInfo(r) ==
    /\ task[r].pc = "files_info"
    /\ \E outcome \in {"ok", "SlackApiError"} :
          Step(r, IF outcome = "ok"
                  THEN [task[r] EXCEPT !.pc = "download", !.download_url = PrivateUrl(task[r].args.file_id)]
                  ELSE Raise(task[r], 1, outcome))

\* mutant of download_image: no raise_for_status
download_image_unchecked(outcome) ==
    IF outcome = "no_connection" THEN [raised |-> "ConnectionError"] ELSE [content |-> "image"]

\* download_image: requests.get raises (ConnectionError), or answers a status that
\* raise_for_status turns into HTTPError, or answers the image
download_image(outcome) ==
    IF outcome = "200" THEN [content |-> "image"]
    ELSE IF outcome = "404" THEN [raised |-> "HTTPError"]
    ELSE [raised |-> "ConnectionError"]

DownloadImage(r) ==
    /\ task[r].pc = "download"
    /\ \E outcome \in {"200", "404", "no_connection"} :
          LET res == download_image(outcome)
              t   == [task[r] EXCEPT !.fetch = outcome]
          IN  Step(r, IF "raised" \in DOMAIN res
                      THEN Raise(t, 2, res.raised)
                      ELSE [t EXCEPT !.pc = "ocr"])

\* extract_text_from_image: the annotation's text, or "" when there is no annotation
extract_text_from_image(annotation) == IF annotation = None THEN <<>> ELSE annotation.text

\* the sender's label on the messaging gateway
user_identifier(from_number) == Remove(from_number, <<"w", "h", "a", "t", "s", "a", "p", "p", ":">>)

\* extract_text_from_image, then parse_expense_data (and, on the gateway, user_identifier)
ExtractText(r) ==
    /\ task[r].pc = "ocr"
    /\ \/ Step(r, Raise(task[r], 3, "GoogleAPICallError"))
       \/ \E annotation \in {None} \cup {[text |-> x] : x \in OcrTexts} :
             LET extracted_text == extract_text_from_image(annotation) IN
             Step(r, [task[r] EXCEPT
                        !.text = extracted_text,
                        !.parsed_data = parse_expense_data(extracted_text),
                        !.pc = IF task[r].channel = "slack" THEN "users_info" ELSE "append",
                        !.user_name = IF task[r].channel = "slack" THEN <<>>
                                      ELSE user_identifier(task[r].args.from_number)])

\* user_info["user"]["real_name"] if user_info and user_info["user"] else f"Usuário {user_id}"
sender_name(user_info, user_id) ==
    IF user_info = "SlackApiError" THEN [raised |-> "SlackApiError"]      \* users_info raises
    ELSE IF user_info = "no_user" THEN [name |-> <<"U", "s", "u", "á", "r", "i", "o", " ">> \o user_id]
    ELSE IF user_info = "no_real_name" THEN [raised |-> "KeyError"]       \* ["real_name"] raises
    ELSE [name |-> RealName]

UsersInfo(r) ==
    /\ task[r].pc = "users_info"
    /\ \E user_info \in {"user", "no_user", "no_real_name", "SlackApiError"} :
          LET res == sender_name(user_info, task[r].args.user_id) IN
          Step(r, IF "raised" \in DOMAIN res
                  THEN Raise(task[r], 4, res.raised)
                  ELSE [task[r] EXCEPT !.pc = "append", !.user_name = res.name])

\* mutant of add_row_to_sheet: a row the sheet already holds is not appended again
add_row_deduplicated(sheet, data) ==
    IF \E i \in 1..Len(sheet) : sheet[i] = data THEN sheet ELSE Append(sheet, data)

\* add_row_to_sheet: the service appends the row after the rows it holds
add_row_to_sheet(sheet, data) == Append(sheet, data)

AddRow(r) ==
    /\ task[r].pc = "append"
    /\ \/ /\ ledger' = add_row_to_sheet(ledger, row_data(task[r].parsed_data, task[r].user_name,
                                                         task[r].download_url))
          /\ task' = [task EXCEPT ![r].pc = "confirm", ![r].appended = @ + 1]
          /\ UNCHANGED <<request, response, exText, exData>>
       \/ Step(r, Raise(task[r], 5, "HttpError"))

\* chat_postMessage / messages.create with the confirmation
SendConfirmation(r) ==
    /\ task[r].pc = "confirm"
    /\ \/ Step(r, [Forget(task[r]) EXCEPT !.pc = "done",
                                  !.reply = [via |-> ReplyTo(task[r]),
                                             msg |-> ConfirmationMessage(task[r].parsed_data)]])
       \/ Step(r, Raise(task[r], 6, "SendError"))

\* the except clause: chat_postMessage / messages.create with the error text;
\* an exception here leaves the processor
SendErrorReply(r) ==
    /\ task[r].pc = "except"
    /\ \E delivered \in BOOLEAN :
          Step(r, [task[r] EXCEPT !.pc = IF delivered THEN "done" ELSE "crashed",
                                  !.error_reply = [via       |-> ReplyTo(task[r]),
                                                   msg       |-> ErrorMessage(task[r].err),
                                                   delivered |-> delivered]])

(***************************************************************************)
(* The specification of the service.                                       *)
(***************************************************************************)
Init ==
    /\ request  = [r \in Reqs |-> NoRequest]
    /\ response = [r \in Reqs |-> NoResponse]
    /\ task     = [r \in Reqs |-> NoTask]
    /\ ledger   = <<>>
    /\ exText   = <<>>
    /\ exData   = None

Next ==
    \E r \in Reqs :
        \/ SlackEvents(r)
        \/ WhatsappWebhook(r)
        \/ RunBackgroundTask(r)
        \/ FilesInfo(r)
        \/ DownloadImage(r)
        \/ ExtractText(r)
        \/ UsersInfo(r)
        \/ AddRow(r)
        \/ SendConfirmation(r)
        \/ SendErrorReply(r)

Spec == Init /\ [][Next]_vars

(***************************************************************************)
(* The extractor on its own: parse_expense_data applied to one text out of *)
(* a generated set of receipts (a prefix, an amount token in either        *)
(* format with 0..MaxGroups thousands groups, a suffix) and a few texts    *)
(* without an amount.                                                      *)
(***************************************************************************)
Leads == {<<"1">>, <<"1", "2">>, <<"1", "2", "3">>, <<"1", "2", "3", "4">>}

RECURSIVE Groups(_, _)
Groups(k, sep) ==
    IF k = 0 THEN <<>>
    ELSE Groups(k - 1, sep) \o
         (CASE k % 3 = 1 -> <<sep, "2", "3", "4">>
            [] k % 3 = 2 -> <<sep, "5", "6", "7">>
            [] OTHER     -> <<sep, "8", "9", "0">>)

Tokens ==
    {lead \o Groups(k, gsep) \o <<dsep, "5", "6">> :
        lead \in Leads, k \in 0..MaxGroups, gsep \in {".", ","}, dsep \in {".", ","}}

Prefixes == {<<>>, <<"R", "$">>, <<"R", "$", " ">>, <<"r", "$", " ", "\n">>, <<"x", " ">>}

Suffixes ==
    {<<>>,
     <<" ", "0", "1", "/", "0", "4", "/", "2", "0", "2", "4">>,
     <<" ", "2", "0", "2", "4", "-", "0", "3", "-", "1", "5", "\n">>}

ExtractorTexts ==
    {pre \o tok \o suf : pre \in Prefixes, tok \in Tokens, suf \in Suffixes}
        \cup {<<>>, <<" ", "o", "k", "\n">>, <<"1", "2", ",", "3">>, <<"1", "/", "2", "/", "2", "0", "2", "4">>}

InitExtract ==
    /\ request  = [r \in Reqs |-> NoRequest]
    /\ response = [r \in Reqs |-> NoResponse]
    /\ task     = [r \in Reqs |-> NoTask]
    /\ ledger   = <<>>
    /\ exText \in ExtractorTexts
    /\ exData   = None

Parse ==
    /\ exData = None
    /\ exData' = parse_expense_data(exText)
    /\ UNCHANGED <<request, response, task, ledger, exText>>

NextExtract == Parse

SpecExtract == InitExtract /\ [][NextExtract]_vars

(***************************************************************************)
(* Properties.                                                             *)
(***************************************************************************)
IsSlack(r) == request[r].channel = "slack"

IsWhatsapp(r) == request[r].channel = "whatsapp"

Finished(t) == t.pc \in {"done", "crashed"}

\* the rows the runs appended, all together
RECURSIVE AppendedUpTo(_)
AppendedUpTo(n) == IF n = 0 THEN 0 ELSE AppendedUpTo(n - 1) + task[n].appended

\* C1: a chat-platform request with an invalid signature is answered 403, schedules
\* no processor (so no row is ever appended for it) and echoes no challenge.
C1_InvalidSignatureIs403 ==
    \A r \in Reqs :
        (IsSlack(r) /\ ~request[r].signature_valid) =>
            /\ response[r].status = 403
            /\ task[r] = NoTask
            /\ "challenge" \notin DOMAIN response[r]

\* C2: in both processors a failed image fetch aborts the run: the failure is caught,
\* the error reply is made through the channel the event came from, and the run
\* appends no row and sends no confirmation.
C2_FetchFailureAborts ==
    \A r \in Reqs :
        LET t == task[r] IN
        t.fetch \in {"404", "no_connection"} =>
            /\ t.err.step = 2
            /\ t.appended = 0
            /\ t.reply = None
            /\ \/ t.pc = "except" /\ t.error_reply = None
               \/ /\ Finished(t)
                  /\ t.error_reply # None
                  /\ t.error_reply.msg.kind = "error"
                  /\ t.error_reply.via = (IF IsSlack(r)
                                          THEN [api |-> "slack", to |-> request[r].body.json.event.channel_id]
                                          ELSE [api |-> "twilio", to |-> request[r].form.From])

C2_Witness ==
    \E r, q \in Reqs :
        /\ IsSlack(r) /\ task[r].fetch = "404" /\ task[r].pc = "done"
        /\ IsWhatsapp(q) /\ task[q].fetch = "no_connection" /\ task[q].pc = "done"

\* C3: the messaging-gateway handler schedules a processor if and only if the form
\* carries a non-empty MediaUrl0; with media the reply is the empty acknowledgement
\* and the one run is for that sender and media; without media the reply asks for a
\* photo, nothing is scheduled and no row is appended for the request.
C3_GatewaySchedulesIffMedia ==
    \A r \in Reqs :
        IsWhatsapp(r) =>
            LET media == Get(request[r].form, "MediaUrl0", "") IN
            /\ (task[r] # NoTask) <=> (media # "")
            /\ response[r].status = 200 /\ response[r].content = "twiml"
            /\ media # "" =>
                  /\ response[r].message = ""
                  /\ task[r].channel = "whatsapp"
                  /\ task[r].args = [from_number |-> request[r].form.From, media_url |-> media]
                  /\ task[r].appended <= 1
            /\ media = "" =>
                  /\ response[r].message # ""
                  /\ task[r].appended = 0

C3_Witness ==
    \E r, q \in Reqs :
        /\ IsWhatsapp(r) /\ "MediaUrl0" \in DOMAIN request[r].form
        /\ request[r].form.MediaUrl0 = "" /\ response[r].message # ""
        /\ IsWhatsapp(q) /\ task[q].pc = "done" /\ task[q].appended = 1

IsHandshake(body) == "challenge" \in DOMAIN body.json

SchedulesFile(body) ==
    /\ "event" \in DOMAIN body.json
    /\ Get(body.json.event, "type", "") = "file_shared"
    /\ "file_id" \in DOMAIN body.json.event

\* C4: a validly signed chat-platform request that is not the handshake is answered
\* 200 whether or not a processor was scheduled; a processor is scheduled exactly
\* for a file_shared event with a file id, for its file, channel and sender.
C4_ValidRequestIs200 ==
    \A r \in Reqs :
        (/\ IsSlack(r) /\ request[r].signature_valid
         /\ "json" \in DOMAIN request[r].body /\ ~IsHandshake(request[r].body)) =>
            /\ response[r].status = 200
            /\ (task[r] # NoTask) <=> SchedulesFile(request[r].body)
            /\ task[r] # NoTask =>
                  task[r].args = [file_id    |-> request[r].body.json.event.file_id,
                                  channel_id |-> request[r].body.json.event.channel_id,
                                  user_id    |-> request[r].body.json.event.user_id]

\* C5: the acknowledgement precedes the work: a step that leaves a processor past
\* its place in the queue starts from a state where the handler's response is
\* already returned, and no step changes a response once it is returned.
C5_AckPrecedesWork ==
    [][\A r \in Reqs :
          /\ response[r] # NoResponse => response'[r] = response[r]
          /\ task'[r].pc \notin {"none", "queued"} => response[r] # NoResponse]_vars

C5_Witness ==
    \E r, q \in Reqs :
        /\ IsSlack(r) /\ task[r].pc = "done" /\ response[r].status = 200
        /\ IsWhatsapp(q) /\ task[q].pc = "done" /\ response[q].status = 200

\* C6 as claimed: the error reply is made only for an exception in steps 1-5, never
\* for a receipt whose row was written.
C6_ErrorReplyOnlySteps1to5 ==
    \A r \in Reqs :
        task[r].error_reply # None => task[r].err.step \in 1..5 /\ task[r].appended = 0

\* C6 as amended: the except clause is entered exactly when one of steps 1-6 raised,
\* and the error reply is made exactly when a run that raised has finished.  A
\* failure of steps 1-5 leaves no row.  A failure of the confirmation send (step 6)
\* leaves the appended row in the ledger and is answered with the error reply like
\* any other.
C6_ErrorReplyForAnyFailedStep ==
    /\ Len(ledger) = AppendedUpTo(MaxReq)
    /\ \A r \in Reqs :
          LET t == task[r] IN
          /\ t.err.step \in 0..6
          /\ (t.err # NoErr) <=> (t.pc = "except" \/ t.error_reply # None)
          /\ (t.error_reply # None) <=> (t.err # NoErr /\ Finished(t))
          /\ t.error_reply # None => t.error_reply.msg = [kind |-> "error", erro |-> t.err.exc]
          /\ t.err.step \in 1..5 => t.appended = 0
          /\ t.err.step = 6 => t.appended = 1 /\ t.reply = None

C6_Witness ==
    \E r \in Reqs :
        /\ task[r].err.step = 6 /\ task[r].appended = 1 /\ Len(ledger) >= 1
        /\ task[r].error_reply # None /\ task[r].error_reply.delivered

\* C7: the ledger is append-only and not deduplicated: every step leaves it as it is
\* or adds one row at its end, every run appends at most one row, and the ledger
\* holds as many rows as the runs appended.
C7_LedgerAppendOnly ==
    [][/\ \/ ledger' = ledger
          \/ Len(ledger') = Len(ledger) + 1 /\ SubSeq(ledger', 1, Len(ledger)) = ledger
       /\ \A r \in Reqs : task'[r].appended <= 1 /\ task'[r].appended >= task[r].appended
       /\ Len(ledger') = AppendedUpTo(MaxReq)']_vars

C7_Witness ==
    \E r, q \in Reqs :
        /\ r # q /\ request[r] = request[q]
        /\ task[r].appended = 1 /\ task[q].appended = 1
        /\ Len(ledger) = 2 /\ ledger[1] = ledger[2]

\* the row is the 7 values in the order date, user label, amount, merchant sentinel,
\* description, status, source URL
IsRowOf(row, parsed_data, user_name, url) ==
    /\ Len(row) = 7
    /\ row[1] = parsed_data.data
    /\ row[2] = user_name
    /\ row[3] = parsed_data.valor
    /\ row[4] = NaoEncontrado
    /\ row[5] = parsed_data.descricao
    /\ row[6] = "Aguardando"
    /\ row[7] = url

\* the text holds nothing the amount pattern matches: no "R$" before a comma-decimal
\* number, and no dot-decimal number
NoAmount(text) ==
    \A p \in 1..Len(text) :
        /\ ~(At(text, p) \in {"R", "r"} /\ At(text, p + 1) = "$")
        /\ ~(At(text, p) = "." /\ AllDigits(text, p - 1, p - 1) /\ AllDigits(text, p + 1, p + 2))

\* the text holds no date: no two digits, separator, two digits, separator
NoDate(text) ==
    \A p \in 1..Len(text) :
        ~(AllDigits(text, p, p + 1) /\ IsDateSep(At(text, p + 2)) /\ AllDigits(text, p + 3, p + 4)
            /\ IsDateSep(At(text, p + 5)))

Missed(valor, data) == valor = [str |-> NaoEncontrado] \/ data = NaoEncontrada

\* C8: a parsing miss is no failure.  For a recognized text (the empty one included)
\* without an amount or without a date the extractor returns the sentinel for the
\* missing field and the run goes on without an exception: once it has appended, its
\* row is the 7 values in order; and a run that sent the confirmation for such a
\* text appended exactly one row and made no error reply.
C8_ParsingMissContinues ==
    \A r \in Reqs :
        LET t == task[r] IN
        /\ (t.text # None /\ (NoAmount(t.text) \/ NoDate(t.text))) =>
              /\ NoAmount(t.text) => t.parsed_data.valor = [str |-> NaoEncontrado]
              /\ NoDate(t.text) => t.parsed_data.data = NaoEncontrada
              /\ t.parsed_data.descricao = Strip(t.text)
              /\ t.err = NoErr
              /\ t.pc \in {"users_info", "append", "confirm"}
              /\ t.pc = "confirm" =>
                    /\ t.appended = 1
                    /\ \E i \in 1..Len(ledger) :
                          IsRowOf(ledger[i], t.parsed_data, t.user_name, t.download_url)
        /\ (t.reply # None /\ Missed(t.reply.msg.valor, t.reply.msg.data)) =>
              /\ t.reply.msg.kind = "confirmation"
              /\ t.pc = "done" /\ t.err = NoErr /\ t.error_reply = None
              /\ t.appended = 1
              /\ \E i \in 1..Len(ledger) :
                    /\ Len(ledger[i]) = 7
                    /\ ledger[i][1] = t.reply.msg.data
                    /\ ledger[i][3] = t.reply.msg.valor

C8_Witness ==
    \E r, q \in Reqs :
        /\ IsWhatsapp(r) /\ task[r].pc = "done" /\ task[r].reply # None
        /\ task[r].reply.msg.valor = [str |-> NaoEncontrado]
        /\ task[r].reply.msg.data = NaoEncontrada
        /\ IsSlack(q) /\ task[q].pc = "confirm"
        /\ task[q].parsed_data.valor # [str |-> NaoEncontrado]
        /\ task[q].parsed_data.data = NaoEncontrada

\* the number an amount token stands for: its digits, the last two of them decimals
TokenValue(token) ==
    LET digits == SelectSeq(token, LAMBDA c : c \in Digit)
    IN  Number(SubSeq(digits, 1, Len(digits) - 2), SubSeq(digits, Len(digits) - 1, Len(digits)))

\* C9: whenever the amount pattern matches, the amount returned is the number the
\* matched token stands for, in either format.
C9_AmountIsTokenValue ==
    (exData # None /\ valor_match(exText) # <<>>) =>
        exData.valor = [float |-> TokenValue(valor_match(exText))]

\* C10: in the chat-platform processor an unavailable sender profile is no failure:
\* sender resolution (step 4) never leaves the run with an exception.
C10_UnavailableProfileFallsBack ==
    \A r \in Reqs :
        task[r].channel = "slack" =>
            ~(task[r].err.step = 4 /\ task[r].err.exc \in {"SlackApiError", "KeyError"})

====
